---------------------------- MODULE Spec2Model ----------------------------
(***************************************************************************)
(* Safaricom Daraja MCP: the gateway client's credential cache             *)
(* (python/mcp_daraja/client.py), the B2C example's payment ledger and     *)
(* callback correlation (examples/b2c-payment-example.py), phone number    *)
(* validation and normalization (python/mcp_daraja/types.py, client.py)    *)
(* and one invocation of a tool or client method from its arguments to     *)
(* its result (python/mcp_daraja/server.py, client.py).                    *)
(*                                                                         *)
(* Python's Optional values are sequences of length at most one:           *)
(* None is << >> and a present value x is << x >>.                         *)
(***************************************************************************)
EXTENDS Integers, Sequences, FiniteSets, TLC

None == << >>
Some(x) == << x >>

(***************************************************************************)
(* Bounds of the model.                                                    *)
(***************************************************************************)
\* invocations of client methods, each run by its own coroutine
NCallers == 2
\* the wall clock stops advancing here (seconds)
MaxNow == 120

Callers == 1..NCallers
\* the clock advances in steps of these many seconds
TickSteps == {30, 60}

(***************************************************************************)
(* DarajaClient: the token cache                                           *)
(***************************************************************************)
VARIABLES
    access_token,   \* DarajaClient.access_token : Optional[str]
    token_expiry,   \* DarajaClient.token_expiry : Optional[datetime], in seconds
    now,            \* datetime.now(), in seconds
    pc,             \* per caller: where its coroutine is suspended
    kind,           \* per caller: the public method it invoked
    branch,         \* per caller: the branch _ensure_token took
    bearer,         \* per caller: the Bearer credential of its operation request
    outcome,        \* per caller: how the invocation ended
    oauthCalls,     \* transport: GET requests sent to urls.oauth
    opCalls         \* transport: POST requests sent to an operation endpoint

clientVars == << access_token, token_expiry, now, pc, kind, branch, bearer,
                 outcome, oauthCalls, opCalls >>

(***************************************************************************)
(* B2CPaymentExample: the payment ledger                                   *)
(***************************************************************************)
VARIABLES
    payments,       \* B2CPaymentExample.payments, in insertion order;
                    \* a record's index stands for its payment_id
    tasks,          \* per payment: its background task process_b2c_payment
    clock,          \* datetime.now() of the example application
    success_notifications,  \* per payment: send_success_notification calls
    failure_notifications,  \* per payment: send_failure_notification calls
    success_details,        \* the details argument of the last
                            \* send_success_notification call
    answered,       \* per payment: the status denoted by the last callback the
                    \* gateway sent in answer to that very payment
    deliveries      \* callbacks received so far

ledgerVars == << payments, tasks, clock, success_notifications,
                 failure_notifications, success_details, answered, deliveries >>

(***************************************************************************)
(* One invocation of an operation, from its entry (a tool of server.py, or *)
(* the DarajaClient method called directly) to what its caller gets back   *)
(***************************************************************************)
VARIABLES
    config,         \* DarajaClient.config : DarajaConfig
    call,           \* the invocation: its entry, method and arguments
    step,           \* where the invocation is suspended
    requests,       \* the HTTP requests the client sent, in order
    http_client,    \* DarajaClient.client (httpx.AsyncClient): none, open, closed
    fault,          \* what went wrong during the invocation, if anything
    op_result,      \* what the invocation gave back to its caller
    exchanged       \* history: the access_token values of the exchanges that
                    \* generate_token completed on this client

opVars == << config, call, step, requests, http_client, fault, op_result,
             exchanged >>

(***************************************************************************)
(* Phone normalization applied to an input, and to its own output          *)
(***************************************************************************)
VARIABLES
    phone_input,    \* the phone number as the caller wrote it
    phone_number,   \* the local phone_number of stk_push, rebound by each pass
    passes          \* normalization passes applied so far

phoneVars == << phone_input, phone_number, passes >>

(***************************************************************************)
(* B2CPaymentExample: the read-only endpoints GET /payments and            *)
(* GET /payments/{payment_id}                                              *)
(***************************************************************************)
VARIABLES
    reply           \* what the last GET request was answered with

apiVars == << reply >>

(***************************************************************************)
(* B2CPaymentExample.parse_result_parameters applied to a list of result   *)
(* parameters                                                              *)
(***************************************************************************)
VARIABLES
    result_parameters,  \* the list handed to parse_result_parameters
    parsed              \* the dict it returned, once it has

parseVars == << result_parameters, parsed >>

vars == << clientVars, ledgerVars, opVars, phoneVars, apiVars, parseVars >>

\* what the steps of one part of the program leave alone
notClient == << ledgerVars, opVars, phoneVars, apiVars, parseVars >>
notLedger == << clientVars, opVars, phoneVars, apiVars, parseVars >>

\* timedelta(seconds=60) of _ensure_token
RefreshSkew == 60

\* access_token values a gateway response body may carry
TokenValues == {"", "tokA", "tokB"}
\* expires_in values a gateway response body may carry (TokenResponse.expires_in : str)
ExpiresInStrings == {"60", "90", "120", "soon"}

\* int(token_data.expires_in) succeeds on a decimal literal, raises ValueError otherwise
IsDecimal(s) == s \in {"60", "90", "120"}
PyInt(s) ==
    CASE s = "60" -> 60
      [] s = "90" -> 90
      [] s = "120" -> 120

\* truthiness of an Optional[str]: None and "" are falsy
Truthy(opt) == opt # None /\ opt[1] # ""

\* the condition of _ensure_token under which it returns without refreshing
TokenIsValid_NoSkew(tok, exp, t) ==
    Truthy(tok) /\ exp # None /\ t < exp[1]
TokenIsValid_Never(tok, exp, t) ==
    FALSE
TokenIsValid(tok, exp, t) ==
    Truthy(tok) /\ exp # None /\ t < exp[1] - RefreshSkew

\* responses of the gateway to GET urls.oauth; net = TRUE is httpx.RequestError
OauthResponses ==
    {[net |-> FALSE, status |-> 200, access_token |-> Some(t), expires_in |-> Some(e)] :
        t \in TokenValues, e \in ExpiresInStrings}
    \cup {[net |-> FALSE, status |-> 200, access_token |-> None, expires_in |-> None]}
    \cup {[net |-> FALSE, status |-> s, access_token |-> None, expires_in |-> None] :
        s \in {201, 401}}
    \cup {[net |-> TRUE, status |-> 0, access_token |-> None, expires_in |-> None]}

\* responses of the gateway to an operation POST
OpResponses ==
    {[net |-> FALSE, status |-> s] : s \in {200, 201, 500}}
    \cup {[net |-> TRUE, status |-> 0]}

ClientInit ==
    /\ access_token = None
    /\ token_expiry = None
    /\ now = 0
    /\ pc = [c \in Callers |-> "idle"]
    /\ kind = [c \in Callers |-> "none"]
    /\ branch = [c \in Callers |-> "none"]
    /\ bearer = [c \in Callers |-> None]
    /\ outcome = [c \in Callers |-> "none"]
    /\ oauthCalls = 0
    /\ opCalls = 0

\* the clock moves on between any two steps of the event loop
Tick(d) ==
    /\ now + d <= MaxNow
    /\ now' = now + d
    /\ UNCHANGED << access_token, token_expiry, pc, kind, branch, bearer,
                    outcome, oauthCalls, opCalls >>
    /\ UNCHANGED notClient

\* stk_push up to its first suspension: _ensure_token either returns at once,
\* and the POST goes out with the cached token, or awaits generate_token's GET
stk_push(c) ==
    /\ pc[c] = "idle"
    /\ kind' = [kind EXCEPT ![c] = "stk_push"]
    /\ IF TokenIsValid(access_token, token_expiry, now)
       THEN /\ branch' = [branch EXCEPT ![c] = "cached"]
            /\ bearer' = [bearer EXCEPT ![c] = access_token]
            /\ opCalls' = opCalls + 1
            /\ pc' = [pc EXCEPT ![c] = "await_op"]
            /\ UNCHANGED oauthCalls
       ELSE /\ branch' = [branch EXCEPT ![c] =
                            IF Truthy(access_token) /\ token_expiry # None
                            THEN "stale" ELSE "missing"]
            /\ oauthCalls' = oauthCalls + 1
            /\ pc' = [pc EXCEPT ![c] = "await_token"]
            /\ UNCHANGED << bearer, opCalls >>
    /\ UNCHANGED << access_token, token_expiry, now, outcome >>
    /\ UNCHANGED notClient

\* generate_token called directly (the daraja_generate_token tool), up to its GET
generate_token(c) ==
    /\ pc[c] = "idle"
    /\ kind' = [kind EXCEPT ![c] = "generate_token"]
    /\ branch' = [branch EXCEPT ![c] = "direct"]
    /\ oauthCalls' = oauthCalls + 1
    /\ pc' = [pc EXCEPT ![c] = "await_token"]
    /\ UNCHANGED << access_token, token_expiry, now, bearer, outcome, opCalls >>
    /\ UNCHANGED notClient

\* generate_token from the arrival of the response r to the caller's next
\* suspension: the cache update, then (inside stk_push) the operation POST
oauth_response(c, r) ==
    /\ pc[c] = "await_token"
    /\ IF r.net \/ r.status # 200 \/ r.access_token = None \/ r.expires_in = None
       THEN \* RequestError, _handle_api_error, or TokenResponse(**body) raising
            /\ pc' = [pc EXCEPT ![c] = "done"]
            /\ outcome' = [outcome EXCEPT ![c] = "error"]
            /\ UNCHANGED << access_token, token_expiry, bearer, opCalls >>
       ELSE IF ~IsDecimal(r.expires_in[1])
       THEN \* access_token is assigned, then int(expires_in) raises ValueError
            /\ access_token' = r.access_token
            /\ pc' = [pc EXCEPT ![c] = "done"]
            /\ outcome' = [outcome EXCEPT ![c] = "error"]
            /\ UNCHANGED << token_expiry, bearer, opCalls >>
       ELSE /\ access_token' = r.access_token
            /\ token_expiry' = Some(now + PyInt(r.expires_in[1]))
            /\ IF kind[c] = "stk_push"
               THEN /\ bearer' = [bearer EXCEPT ![c] = r.access_token]
                    /\ opCalls' = opCalls + 1
                    /\ pc' = [pc EXCEPT ![c] = "await_op"]
                    /\ UNCHANGED outcome
               ELSE /\ pc' = [pc EXCEPT ![c] = "done"]
                    /\ outcome' = [outcome EXCEPT ![c] = "ok"]
                    /\ UNCHANGED << bearer, opCalls >>
    /\ UNCHANGED << now, kind, branch, oauthCalls >>
    /\ UNCHANGED notClient

\* stk_push from the arrival of the operation response to its return
op_response(c, r) ==
    /\ pc[c] = "await_op"
    /\ pc' = [pc EXCEPT ![c] = "done"]
    /\ outcome' = [outcome EXCEPT ![c] =
                     IF ~r.net /\ r.status = 200 THEN "ok" ELSE "error"]
    /\ UNCHANGED << access_token, token_expiry, now, kind, branch, bearer,
                    oauthCalls, opCalls >>
    /\ UNCHANGED notClient

ClientNext ==
    \/ \E d \in TickSteps : Tick(d)
    \/ \E c \in Callers : stk_push(c)
    \/ \E c \in Callers : generate_token(c)
    \/ \E c \in Callers, r \in OauthResponses : oauth_response(c, r)
    \/ \E c \in Callers, r \in OpResponses : op_response(c, r)

(***************************************************************************)
(* B2CPaymentExample: submission, background processing and callbacks      *)
(***************************************************************************)

\* payments the ledger may hold
MaxPayments == 2
\* result and timeout callbacks the application may receive
MaxDeliveries == 2
\* the instants datetime.now() of the application takes: a stamp taken at
\* the later one differs from every stamp taken before
ClockInstants == {0, 1}

\* the ConversationID of call_daraja_mcp's response, and the value
\* extract_conversation_id returns whatever the response holds
MockConversationId == "AG_20231201_1234567890"
\* the value extract_originator_conversation_id returns
MockOriginatorConversationId == "29115-34620561-1"

\* JSON scalars: str() renders a string and an integer with the same digits alike
JStr(s) == [type |-> "str", text |-> s]
JInt(s) == [type |-> "int", text |-> s]
PyStr(v) == v.text

\* bodies of POST /send-money
PaymentRequests ==
    {[recipient_phone |-> "0708374149", amount |-> 1000,
      command_id |-> "BusinessPayment", remarks |-> "Salary", occasion |-> None]}

\* B2CPayment(...) as send_money constructs it
B2CPayment(req) ==
    [recipient_phone |-> req.recipient_phone,
     amount |-> req.amount,
     command_id |-> req.command_id,
     remarks |-> req.remarks,
     occasion |-> req.occasion,
     status |-> "pending",
     conversation_id |-> None,
     originator_conversation_id |-> None,
     completed_at |-> None,
     result_code |-> None,
     result_description |-> None]

\* what awaiting call_daraja_mcp can give process_b2c_payment. The call
\* stands for a request to the MCP server: as written it returns the first
\* dict; the others are the outcomes process_b2c_payment provides for (a
\* dict without ConversationID, a falsy result, an exception re-raised)
McpResults ==
    {[raised |-> FALSE, truthy |-> TRUE, ConversationID |-> Some(MockConversationId)],
     [raised |-> FALSE, truthy |-> TRUE, ConversationID |-> None],
     [raised |-> FALSE, truthy |-> FALSE, ConversationID |-> None],
     [raised |-> TRUE, truthy |-> FALSE, ConversationID |-> None]}

\* the Result object of a result callback; a field that is absent is None,
\* and a body without Result is the payload with every field absent
ResultFields ==
    {[ResultCode |-> Some(JStr("0")), ResultDesc |-> Some("processed")],
     [ResultCode |-> Some(JInt("0")), ResultDesc |-> Some("processed")],
     [ResultCode |-> Some(JStr("2001")), ResultDesc |-> Some("invalid initiator")],
     [ResultCode |-> None, ResultDesc |-> None]}
CallbackIds == {None, Some(MockConversationId), Some("AG_unknown")}
\* one {Key, Value} item of ResultParameters.ResultParameter
ResultParameter(key, value) == [Key |-> Some(key), Value |-> Some(value)]
\* ResultParameters.ResultParameter of a result callback; None when the
\* payload has no ResultParameters
ParameterLists ==
    {None,
     Some(<< ResultParameter("TransactionReceipt", "R1") >>),
     Some(<< ResultParameter("TransactionReceipt", "R1"),
             ResultParameter("TransactionReceipt", "R2") >>)}
\* the bodies of POST /result; the gateway sends ResultParameters with a
\* successful result only
ResultPayloads ==
    {r \in {[ConversationID |-> c, ResultCode |-> f.ResultCode,
             ResultDesc |-> f.ResultDesc, ResultParameter |-> ps] :
                c \in CallbackIds, f \in ResultFields, ps \in ParameterLists} :
        \/ r.ResultParameter = None
        \/ r.ResultCode # None /\ PyStr(r.ResultCode[1]) = "0"}
TimeoutPayloads == {[ConversationID |-> c] : c \in CallbackIds}

PaymentIds == 1..Len(payments)

\* find_payment_by_conversation_id: the first record, in insertion order,
\* whose conversation_id equals the argument; 0 stands for None
find_payment_by_conversation_id(conversation_id) ==
    LET hits == {p \in PaymentIds : payments[p].conversation_id = conversation_id}
    IN  IF hits = {} THEN 0
        ELSE CHOOSE p \in hits : \A q \in hits : p <= q

extract_conversation_id(response) == Some(MockConversationId)
extract_originator_conversation_id(response) == Some(MockOriginatorConversationId)

\* a dict is a function from its keys; {} is the function of no key
EmptyDict == [k \in {} |-> ""]
DictSet(d, key, value) ==
    [k \in DOMAIN d \cup {key} |-> IF k = key THEN value ELSE d[k]]

\* parse_result_parameters: parsed[key] = value for each item in order; an
\* item without Key or Value counts as ''
\* parse_result_parameters keeping the first value of a key, not the last
RECURSIVE parse_result_parameters_First(_)
parse_result_parameters_First(parameters) ==
    IF parameters = << >> THEN EmptyDict
    ELSE LET param == Head(parameters)
             key == IF param.Key = None THEN "" ELSE param.Key[1]
             value == IF param.Value = None THEN "" ELSE param.Value[1]
         IN  DictSet(parse_result_parameters_First(Tail(parameters)), key, value)
RECURSIVE parse_result_parameters(_)
parse_result_parameters(parameters) ==
    IF parameters = << >> THEN EmptyDict
    ELSE LET n == Len(parameters)
             param == parameters[n]
             key == IF param.Key = None THEN "" ELSE param.Key[1]
             value == IF param.Value = None THEN "" ELSE param.Value[1]
         IN  DictSet(parse_result_parameters(SubSeq(parameters, 1, n - 1)), key, value)

\* the transaction_details handle_payment_result computes for a successful
\* result: result.get('ResultParameters', {}).get('ResultParameter', [])
\* run through parse_result_parameters
transaction_details_Dropped(result) ==
    EmptyDict
transaction_details(result) ==
    parse_result_parameters(
        IF result.ResultParameter = None THEN << >> ELSE result.ResultParameter[1])

\* the record handle_payment_result leaves behind; t is datetime.now()
handle_payment_result_Truthy(payment, result, t) ==
    LET result_code == IF result.ResultCode = None THEN ""
                       ELSE PyStr(result.ResultCode[1])
        result_desc == IF result.ResultDesc = None THEN "" ELSE result.ResultDesc[1]
    IN  [payment EXCEPT !.result_code = Some(result_code),
                        !.result_description = Some(result_desc),
                        !.completed_at = Some(t),
                        !.status = IF result_code # "" THEN "completed" ELSE "failed"]
handle_payment_result(payment, result, t) ==
    LET result_code == IF result.ResultCode = None THEN ""
                       ELSE PyStr(result.ResultCode[1])
        result_desc == IF result.ResultDesc = None THEN "" ELSE result.ResultDesc[1]
    IN  [payment EXCEPT !.result_code = Some(result_code),
                        !.result_description = Some(result_desc),
                        !.completed_at = Some(t),
                        !.status = IF result_code = "0" THEN "completed" ELSE "failed"]

LedgerInit ==
    /\ payments = << >>
    /\ tasks = << >>
    /\ clock = 0
    /\ success_notifications = << >>
    /\ failure_notifications = << >>
    /\ success_details = None
    /\ answered = << >>
    /\ deliveries = 0

\* a clock that expires what is pending: every pending record is timed out
\* as time passes
LedgerTick_Expires ==
    /\ clock + 1 \in ClockInstants
    /\ clock' = clock + 1
    /\ payments' = [p \in PaymentIds |->
                        IF payments[p].status = "pending"
                        THEN [payments[p] EXCEPT !.status = "timeout",
                                                 !.completed_at = Some(clock + 1)]
                        ELSE payments[p]]
    /\ UNCHANGED << tasks, success_notifications, failure_notifications,
                    success_details, answered, deliveries >>
    /\ UNCHANGED notLedger
LedgerTick ==
    /\ clock + 1 \in ClockInstants
    /\ clock' = clock + 1
    /\ UNCHANGED << payments, tasks, success_notifications,
                    failure_notifications, success_details, answered, deliveries >>
    /\ UNCHANGED notLedger

\* POST /send-money: the record is stored and its background task queued
send_money(req) ==
    /\ Len(payments) < MaxPayments
    /\ payments' = Append(payments, B2CPayment(req))
    /\ tasks' = Append(tasks, "queued")
    /\ success_notifications' = Append(success_notifications, 0)
    /\ failure_notifications' = Append(failure_notifications, 0)
    /\ answered' = Append(answered, None)
    /\ UNCHANGED << clock, success_details, deliveries >>
    /\ UNCHANGED notLedger

\* the background task of payment p, from start to end (it never suspends:
\* call_daraja_mcp awaits nothing)
process_b2c_payment_StaysPending(p, result) ==
    /\ p \in PaymentIds
    /\ tasks[p] = "queued"
    /\ IF ~result.raised /\ result.truthy /\ result.ConversationID # None
       THEN /\ payments' = [payments EXCEPT
                   ![p].conversation_id = extract_conversation_id(result),
                   ![p].originator_conversation_id =
                       extract_originator_conversation_id(result)]
            /\ tasks' = [tasks EXCEPT ![p] = "acked"]
       ELSE /\ payments' = payments
            /\ tasks' = [tasks EXCEPT ![p] = "failed"]
    /\ UNCHANGED << clock, success_notifications, failure_notifications,
                    success_details, answered, deliveries >>
    /\ UNCHANGED notLedger
\* process_b2c_payment if awaiting call_daraja_mcp yielded to the event loop:
\* the lookup (payment = self.payments[payment_id]) is one step, and what
\* follows the await another
process_b2c_payment_Suspends(p, result) ==
    /\ p \in PaymentIds
    /\ \/ /\ tasks[p] = "queued"
          /\ tasks' = [tasks EXCEPT ![p] = "awaiting"]
          /\ UNCHANGED payments
       \/ /\ tasks[p] = "awaiting"
          /\ IF ~result.raised /\ result.truthy /\ result.ConversationID # None
             THEN /\ payments' = [payments EXCEPT
                         ![p].conversation_id = extract_conversation_id(result),
                         ![p].originator_conversation_id =
                             extract_originator_conversation_id(result)]
                  /\ tasks' = [tasks EXCEPT ![p] = "acked"]
             ELSE /\ payments' = [payments EXCEPT ![p].status = "failed"]
                  /\ tasks' = [tasks EXCEPT ![p] = "failed"]
    /\ UNCHANGED << clock, success_notifications, failure_notifications,
                    success_details, answered, deliveries >>
    /\ UNCHANGED notLedger
process_b2c_payment(p, result) ==
    /\ p \in PaymentIds
    /\ tasks[p] = "queued"
    /\ IF ~result.raised /\ result.truthy /\ result.ConversationID # None
       THEN /\ payments' = [payments EXCEPT
                   ![p].conversation_id = extract_conversation_id(result),
                   ![p].originator_conversation_id =
                       extract_originator_conversation_id(result)]
            /\ tasks' = [tasks EXCEPT ![p] = "acked"]
       ELSE /\ payments' = [payments EXCEPT ![p].status = "failed"]
            /\ tasks' = [tasks EXCEPT ![p] = "failed"]
    /\ UNCHANGED << clock, success_notifications, failure_notifications,
                    success_details, answered, deliveries >>
    /\ UNCHANGED notLedger

\* POST /result with body {"Result": result}
handle_result(result) ==
    LET payment == find_payment_by_conversation_id(result.ConversationID)
    IN  IF payment # 0
        THEN LET updated == handle_payment_result(payments[payment], result, clock)
             IN  /\ payments' = [payments EXCEPT ![payment] = updated]
                 /\ IF updated.status = "completed"
                    THEN \* on_payment_success(payment, transaction_details)
                         /\ success_notifications' =
                                [success_notifications EXCEPT ![payment] = @ + 1]
                         /\ success_details' = Some(transaction_details(result))
                         /\ UNCHANGED failure_notifications
                    ELSE \* on_payment_failure
                         /\ failure_notifications' =
                                [failure_notifications EXCEPT ![payment] = @ + 1]
                         /\ UNCHANGED << success_notifications, success_details >>
        ELSE \* logged as a warning
             UNCHANGED << payments, success_notifications, failure_notifications,
                          success_details >>

\* POST /timeout with body timeout_data
handle_timeout(timeout_data) ==
    LET payment == find_payment_by_conversation_id(timeout_data.ConversationID)
    IN  /\ IF payment # 0
           THEN payments' = [payments EXCEPT ![payment].status = "timeout",
                                             ![payment].completed_at = Some(clock)]
           ELSE UNCHANGED payments
        /\ UNCHANGED << success_notifications, failure_notifications,
                        success_details >>

\* the payments the gateway may be answering with a callback that carries
\* conversation_id: those it acknowledged under that id; 0 when the callback
\* answers no recorded payment (a stray or unknown one)
Answerable(conversation_id) ==
    {0} \cup {p \in PaymentIds :
                /\ tasks[p] = "acked"
                /\ conversation_id = Some(MockConversationId)}

Answer(p, status) ==
    answered' = IF p = 0 THEN answered ELSE [answered EXCEPT ![p] = Some(status)]

\* the gateway delivers a result callback, in answer to payment p (or to none)
result_callback(p, result) ==
    /\ deliveries < MaxDeliveries
    /\ p \in Answerable(result.ConversationID)
    /\ handle_result(result)
    /\ Answer(p, IF result.ResultCode # None /\ PyStr(result.ResultCode[1]) = "0"
                 THEN "completed" ELSE "failed")
    /\ deliveries' = deliveries + 1
    /\ UNCHANGED << tasks, clock >>
    /\ UNCHANGED notLedger

\* the gateway delivers a timeout callback, in answer to payment p (or to none)
timeout_callback(p, timeout_data) ==
    /\ deliveries < MaxDeliveries
    /\ p \in Answerable(timeout_data.ConversationID)
    /\ handle_timeout(timeout_data)
    /\ Answer(p, "timeout")
    /\ deliveries' = deliveries + 1
    /\ UNCHANGED << tasks, clock >>
    /\ UNCHANGED notLedger

LedgerNext ==
    \/ LedgerTick
    \/ \E req \in PaymentRequests : send_money(req)
    \/ \E p \in 1..MaxPayments, r \in McpResults : process_b2c_payment(p, r)
    \/ \E p \in 0..MaxPayments, r \in ResultPayloads : result_callback(p, r)
    \/ \E p \in 0..MaxPayments, t \in TimeoutPayloads : timeout_callback(p, t)

(***************************************************************************)
(* B2CPaymentExample: parse_result_parameters on the lists a callback may  *)
(* carry                                                                   *)
(***************************************************************************)

\* items of a ResultParameter list
MaxParameters == 3

\* the Key and the Value of an item, as the gateway's B2C result names them
ParameterKeys == {"TransactionReceipt", "TransactionAmount"}
ParameterValues == {"R1", "R2"}
ParameterItems ==
    {ResultParameter(k, v) : k \in ParameterKeys, v \in ParameterValues}

\* the lists of at most MaxParameters items, the empty one included
ParameterInputs ==
    UNION {[1..n -> ParameterItems] : n \in 0..MaxParameters}

\* transaction_details = self.parse_result_parameters(result_parameters)
parse ==
    /\ parsed = None
    /\ parsed' = Some(parse_result_parameters(result_parameters))
    /\ UNCHANGED result_parameters
    /\ UNCHANGED << clientVars, ledgerVars, opVars, phoneVars, apiVars >>

ParseNext == parse

(***************************************************************************)
(* B2CPaymentExample: the accessors of the ledger                          *)
(***************************************************************************)

\* no GET request answered yet
NoReply == [handler |-> "none", status_code |-> 0, body |-> << >>]

\* the payment_id of a GET /payments/{payment_id} request: a record's
\* index, or 0 for an id the ledger never issued
RequestedIds == 0..MaxPayments

\* GET /payments: asdict of every record, in insertion order
list_payments ==
    /\ reply' = [handler |-> "list_payments", status_code |-> 200,
                    body |-> payments]
    /\ UNCHANGED << clientVars, ledgerVars, opVars, phoneVars, parseVars >>

\* GET /payments/{payment_id}: asdict of the record, or 404 'Payment not found'
get_payment_PendingOnly(payment_id) ==
    /\ payment_id \in RequestedIds
    /\ reply' = IF \/ payment_id \notin PaymentIds
                   \/ payments[payment_id].status # "pending"
                THEN [handler |-> "get_payment", status_code |-> 404,
                      body |-> << >>]
                ELSE [handler |-> "get_payment", status_code |-> 200,
                      body |-> << payments[payment_id] >>]
    /\ UNCHANGED << clientVars, ledgerVars, opVars, phoneVars, parseVars >>
get_payment(payment_id) ==
    /\ payment_id \in RequestedIds
    /\ reply' = IF payment_id \notin PaymentIds
                   THEN [handler |-> "get_payment", status_code |-> 404,
                         body |-> << >>]
                   ELSE [handler |-> "get_payment", status_code |-> 200,
                         body |-> << payments[payment_id] >>]
    /\ UNCHANGED << clientVars, ledgerVars, opVars, phoneVars, parseVars >>

LedgerApiNext ==
    \/ LedgerNext
    \/ list_payments
    \/ \E payment_id \in RequestedIds : get_payment(payment_id)

(***************************************************************************)
(* Phone numbers: PhoneNumber.validate and the normalization of stk_push,  *)
(* c2b_simulate and b2c_payment                                            *)
(***************************************************************************)

\* normalization passes applied to one input
MaxPasses == 2

\* str.startswith(prefix)
StartsWith(s, prefix) ==
    Len(s) >= Len(prefix) /\ SubSeq(s, 1, Len(prefix)) = prefix
\* s[n:]
DropFirst(s, n) == SubSeq(s, n + 1, Len(s))

Digits == {"0", "1", "2", "3", "4", "5", "6", "7", "8", "9"}

\* [17]\d{8}
Subscriber(s) ==
    /\ Len(s) = 9
    /\ SubSeq(s, 1, 1) \in {"1", "7"}
    /\ \A i \in 2..9 : SubSeq(s, i, i) \in Digits

\* PhoneNumber.validate: re.match(r'^(?:254|\+254|0)?([17]\d{8})$', v); the
\* prefix is optional, and $ also matches before a final newline
PhoneNumber_validate(v) ==
    \E prefix \in {"", "254", "+254", "0"} :
        /\ StartsWith(v, prefix)
        /\ LET rest == DropFirst(v, Len(prefix))
           IN  \/ Subscriber(rest)
               \/ /\ Len(rest) = 10
                  /\ Subscriber(SubSeq(rest, 1, 9))
                  /\ SubSeq(rest, 10, 10) = "\n"

\* the normalization of a phone number argument
NormalizePhone_KeepsZero(phone) ==
    IF StartsWith(phone, "0") THEN "254" \o phone
    ELSE IF StartsWith(phone, "+") THEN DropFirst(phone, 1)
    ELSE phone
NormalizePhone(phone) ==
    IF StartsWith(phone, "0") THEN "254" \o DropFirst(phone, 1)
    ELSE IF StartsWith(phone, "+") THEN DropFirst(phone, 1)
    ELSE phone

\* phone numbers a caller may write: a prefix and a subscriber part, well
\* formed or not
PhonePrefixes == {"", "0", "254", "+254", "+", "+0", "00", "2540"}
PhoneSubscribers ==
    {"712345678", "112345678", "708374149", "812345678", "71234567",
     "7123456789", "71234567a", "712345678\n"}
PhoneInputs ==
    {prefix \o subscriber : prefix \in PhonePrefixes, subscriber \in PhoneSubscribers}
    \cup {""}

\* one normalization pass over the number at hand
normalize_phone ==
    /\ passes < MaxPasses
    /\ phone_number' = NormalizePhone(phone_number)
    /\ passes' = passes + 1
    /\ UNCHANGED phone_input
    /\ UNCHANGED << clientVars, ledgerVars, opVars, apiVars, parseVars >>

PhoneNext == normalize_phone

(***************************************************************************)
(* Operations: the tools of server.py and the methods of DarajaClient      *)
(***************************************************************************)

\* limits of the input models and of the request models
MaxStkAmount == 70000
MaxAccountReference == 12
MaxTransactionDesc == 13
MaxRemarks == 100

\* the public methods of DarajaClient, each behind the tool daraja_<method>
Methods ==
    {"generate_token", "stk_push", "stk_query", "c2b_register", "c2b_simulate",
     "b2c_payment", "b2b_payment", "account_balance", "transaction_status",
     "reverse_transaction", "generate_qr"}
\* the methods that refuse to run without initiator credentials
InitiatorMethods ==
    {"b2c_payment", "b2b_payment", "account_balance", "transaction_status",
     "reverse_transaction"}
\* the methods that normalize a phone number argument
PhoneMethods == {"stk_push", "c2b_simulate", "b2c_payment"}
\* the methods whose response is decoded into a model with required fields
TypedResponseMethods == {"stk_push", "stk_query"}

\* who calls: an MCP client through the tool, or code holding a DarajaClient
Entries == {"tool", "client"}

\* a text of n characters
RECURSIVE Text(_)
Text(n) == IF n = 0 THEN "" ELSE "x" \o Text(n - 1)

\* the arguments the model tells apart; a method ignores those it does not take
DefaultArgs ==
    [amount |-> 1000, phone |-> "254712345678", account_reference |-> "INV001",
     transaction_desc |-> "Payment", remarks |-> "Salary"]
OpPhones ==
    {"0708374149", "254712345678", "+254712345678", "712345678", "0812345678"}
RemarkTexts == {"Salary", Text(MaxRemarks + 1)}
ReferenceTexts == {"INV001", Text(MaxAccountReference + 1)}
DescTexts == {"Payment", Text(MaxTransactionDesc + 1)}
ArgsOf(m) ==
    CASE m = "stk_push" ->
            {[DefaultArgs EXCEPT !.amount = a, !.phone = p,
                                 !.account_reference = ar, !.transaction_desc = td] :
                a \in {0, 1, MaxStkAmount, MaxStkAmount + 1}, p \in OpPhones,
                ar \in ReferenceTexts, td \in DescTexts}
      [] m = "c2b_simulate" ->
            {[DefaultArgs EXCEPT !.amount = a, !.phone = p] :
                a \in {0, 1000}, p \in OpPhones}
      [] m = "b2c_payment" ->
            {[DefaultArgs EXCEPT !.amount = a, !.phone = p, !.remarks = rm] :
                a \in {0, 1000}, p \in OpPhones, rm \in RemarkTexts}
      [] m = "b2b_payment" ->
            {[DefaultArgs EXCEPT !.amount = a, !.remarks = rm, !.account_reference = ar] :
                a \in {0, 1000}, rm \in RemarkTexts, ar \in ReferenceTexts}
      [] m \in {"account_balance", "transaction_status"} ->
            {[DefaultArgs EXCEPT !.remarks = rm] : rm \in RemarkTexts}
      [] m = "reverse_transaction" ->
            {[DefaultArgs EXCEPT !.amount = a, !.remarks = rm] :
                a \in {0, 1000}, rm \in RemarkTexts}
      [] m = "generate_qr" ->
            {[DefaultArgs EXCEPT !.amount = a] : a \in {0, 1000}}
      [] OTHER -> {DefaultArgs}
AllArgs == UNION {ArgsOf(m) : m \in Methods}
NoCall == [entry |-> "none", method |-> "none", args |-> DefaultArgs]

\* the XInput(...) model a tool builds first: True when it validates
InputValid_Any(m, a) ==
    TRUE
InputValid(m, a) ==
    CASE m = "stk_push" ->
            /\ a.amount > 0 /\ a.amount <= MaxStkAmount
            /\ PhoneNumber_validate(a.phone)
            /\ Len(a.account_reference) <= MaxAccountReference
            /\ Len(a.transaction_desc) <= MaxTransactionDesc
      [] m = "c2b_simulate" ->
            a.amount > 0 /\ PhoneNumber_validate(a.phone)
      [] m = "b2c_payment" ->
            /\ a.amount > 0
            /\ PhoneNumber_validate(a.phone)
            /\ Len(a.remarks) <= MaxRemarks
      [] m = "b2b_payment" ->
            /\ a.amount > 0
            /\ Len(a.remarks) <= MaxRemarks
            /\ Len(a.account_reference) <= MaxAccountReference
      [] m \in {"account_balance", "transaction_status"} ->
            Len(a.remarks) <= MaxRemarks
      [] m = "reverse_transaction" ->
            a.amount > 0 /\ Len(a.remarks) <= MaxRemarks
      [] m = "generate_qr" -> a.amount > 0
      [] OTHER -> TRUE

\* the XRequest(...) model a client method builds as its payload: True when
\* it validates
RequestValid(m, a) ==
    CASE m = "stk_push" ->
            /\ Len(a.account_reference) <= MaxAccountReference
            /\ Len(a.transaction_desc) <= MaxTransactionDesc
      [] m = "b2b_payment" ->
            /\ Len(a.remarks) <= MaxRemarks
            /\ Len(a.account_reference) <= MaxAccountReference
      [] m \in {"b2c_payment", "account_balance", "transaction_status",
                "reverse_transaction"} ->
            Len(a.remarks) <= MaxRemarks
      [] OTHER -> TRUE

\* DarajaConfig as get_daraja_client or a direct user builds it; an unset
\* initiator variable is None, one set to nothing is ''
\* DARAJA_BUSINESS_SHORT_CODE and DARAJA_PASS_KEY of each environment's
\* deployment
Credentials ==
    [sandbox |-> [business_short_code |-> "174379", pass_key |-> "bfb279f9"],
     production |-> [business_short_code |-> "600123", pass_key |-> "9c1d"]]

Configs ==
    {[environment |-> e, initiator_name |-> i[1], initiator_password |-> i[2],
      business_short_code |-> Credentials[e].business_short_code,
      pass_key |-> Credentials[e].pass_key] :
        e \in {"sandbox", "production"},
        i \in {<< None, None >>, << Some(""), Some("secret") >>,
               << Some("apiop"), None >>, << Some("apiop"), Some("") >>,
               << Some("apiop"), Some("secret") >>}}

\* the token cache a client may hold when a method is called on it: empty,
\* a token with 120 s left, a token with 60 s left
TokenCaches ==
    {<< None, None >>, << Some("tokA"), Some(120) >>, << Some("tokA"), Some(60) >>}

\* the cache after generate_token, called on a client that held a token
\* with 120 s left, got a new token with an expires_in that int() refuses:
\* access_token is the new token, token_expiry still the old expiry
FailedRefresh == << Some("tokB"), Some(120) >>

\* the checks a method makes before anything else: the message of the
\* DarajaError it raises, None when it goes on
GuardError_None(m) ==
    None
GuardError_NameOnly(m) ==
    IF m = "c2b_simulate" /\ config.environment = "production"
    THEN Some("C2B simulation is only available in sandbox environment")
    ELSE IF m \in InitiatorMethods /\ ~Truthy(config.initiator_name)
    THEN Some("Initiator credentials are required")
    ELSE None
GuardError(m) ==
    IF m = "c2b_simulate" /\ config.environment = "production"
    THEN Some("C2B simulation is only available in sandbox environment")
    ELSE IF /\ m \in InitiatorMethods
            /\ ~Truthy(config.initiator_name) \/ ~Truthy(config.initiator_password)
    THEN Some("Initiator credentials are required")
    ELSE None

\* the characters of str.encode() the model knows, by their byte: the
\* digits from 48 on, the lower-case letters from 97 on
AsciiFrom48 == "0123456789"
AsciiFrom97 == "abcdefghijklmnopqrstuvwxyz"
IndexIn(c, s) == CHOOSE i \in 1..Len(s) : SubSeq(s, i, i) = c
Ord(c) ==
    IF \E i \in 1..Len(AsciiFrom48) : SubSeq(AsciiFrom48, i, i) = c
    THEN 47 + IndexIn(c, AsciiFrom48)
    ELSE 96 + IndexIn(c, AsciiFrom97)

\* base64.b64encode(s.encode()).decode(): each group of three bytes gives
\* four characters of the alphabet, a last group of one or two bytes is
\* padded with '='
Base64Alphabet ==
    "ABCDEFGHIJKLMNOPQRSTUVWXYZabcdefghijklmnopqrstuvwxyz0123456789+/"
Base64Char(n) == SubSeq(Base64Alphabet, n + 1, n + 1)
ByteAt(s, i) == IF i <= Len(s) THEN Ord(SubSeq(s, i, i)) ELSE 0
RECURSIVE b64encode(_)
b64encode(s) ==
    IF s = "" THEN ""
    ELSE LET n == ByteAt(s, 1) * 65536 + ByteAt(s, 2) * 256 + ByteAt(s, 3)
         IN  Base64Char(n \div 262144)
             \o Base64Char((n \div 4096) % 64)
             \o (IF Len(s) >= 2 THEN Base64Char((n \div 64) % 64) ELSE "=")
             \o (IF Len(s) >= 3 THEN Base64Char(n % 64) ELSE "=")
             \o (IF Len(s) > 3 THEN b64encode(SubSeq(s, 4, Len(s))) ELSE "")

\* '%H', '%M', '%S' of strftime: two decimal digits
TwoDigits(n) ==
    SubSeq(AsciiFrom48, (n \div 10) + 1, (n \div 10) + 1)
    \o SubSeq(AsciiFrom48, (n % 10) + 1, (n % 10) + 1)

\* _generate_timestamp: datetime.now().strftime("%Y%m%d%H%M%S"), the clock
\* counting the seconds of 1 January 2024
generate_timestamp(t) ==
    "20240101" \o TwoDigits(t \div 3600) \o TwoDigits((t \div 60) % 60)
    \o TwoDigits(t % 60)

\* _generate_password
generate_password_NoTimestamp(timestamp) ==
    b64encode(config.business_short_code \o config.pass_key)
generate_password(timestamp) ==
    b64encode(config.business_short_code \o config.pass_key \o timestamp)

\* the methods whose payload carries Password and Timestamp
PasswordMethods == {"stk_push", "stk_query"}

\* payload.dict() as far as the model tells payloads apart
Payload(m, a) ==
    [Timestamp |-> IF m \in PasswordMethods
                   THEN Some(generate_timestamp(now)) ELSE None,
     Password |-> IF m \in PasswordMethods
                  THEN Some(generate_password(generate_timestamp(now))) ELSE None,
     phone |-> IF m \in PhoneMethods THEN Some(NormalizePhone(a.phone)) ELSE None,
     Amount |-> IF m \in {"account_balance", "transaction_status", "stk_query",
                          "c2b_register"}
                THEN None ELSE Some(a.amount),
     InitiatorName |-> IF m \in InitiatorMethods THEN config.initiator_name ELSE None,
     SecurityCredential |->
        IF m \in InitiatorMethods THEN config.initiator_password ELSE None]

\* GET urls.oauth with the Basic credential
TokenRequest ==
    [verb |-> "GET", url |-> "oauth",
     authorization |-> [scheme |-> "Basic", credential |-> "consumer_key:consumer_secret"],
     payload |-> None]
\* POST urls.<method> with the Bearer credential
OperationRequest(m, a, token) ==
    [verb |-> "POST", url |-> m,
     authorization |-> [scheme |-> "Bearer", credential |-> token],
     payload |-> Some(Payload(m, a))]

\* response bodies: json tells what response.json() gives (it raises on
\* "invalid"), text is response.text, the other fields are the keys of a
\* JSON object (None when absent); complete says the object holds every
\* field of STKPushResponse / STKQueryResponse
Body(json, text) ==
    [json |-> json, text |-> text, errorCode |-> None, errorMessage |-> None,
     access_token |-> None, expires_in |-> None, ConversationID |-> None,
     complete |-> FALSE]
ErrorBodies ==
    {Body("invalid", "Bad Gateway"),
     Body("invalid", ""),
     Body("array", "[]"),
     Body("object", "{}"),
     [Body("object", "{errorCode, errorMessage}") EXCEPT
        !.errorCode = Some("404.001.03"), !.errorMessage = Some("Invalid Access Token")]}
TokenBodies ==
    {[Body("object", "{access_token, expires_in}") EXCEPT
        !.access_token = Some("tokB"), !.expires_in = Some(e)] : e \in {"120", "soon"}}
    \cup {Body("object", "{}"), Body("invalid", "OK"), Body("array", "[]")}
OperationBodies ==
    {[Body("object", "{ResponseCode, ConversationID, ...}") EXCEPT
        !.ConversationID = Some("AG_1"), !.complete = TRUE],
     [Body("object", "{errorCode, errorMessage}") EXCEPT
        !.errorCode = Some("500.001.1001"), !.errorMessage = Some("Wrong credentials")],
     Body("object", "{}"), Body("invalid", "OK"), Body("array", "[]")}

\* what the gateway answers; net = TRUE is httpx.RequestError
NetworkFailure == [net |-> TRUE, status |-> 0, body |-> Body("invalid", "")]
ErrorStatuses == {201, 500}
TokenResponses ==
    {NetworkFailure}
    \cup {[net |-> FALSE, status |-> 200, body |-> b] : b \in TokenBodies}
    \cup {[net |-> FALSE, status |-> st, body |-> b] :
            st \in ErrorStatuses, b \in ErrorBodies}
OperationResponses ==
    {NetworkFailure}
    \cup {[net |-> FALSE, status |-> 200, body |-> b] : b \in OperationBodies}
    \cup {[net |-> FALSE, status |-> st, body |-> b] :
            st \in ErrorStatuses, b \in ErrorBodies}

\* f'HTTP_{response.status_code}'
HttpCode(status) ==
    CASE status = 201 -> "HTTP_201"
      [] status = 500 -> "HTTP_500"

\* what a caller gets: a value returned or an exception raised by a client
\* method, or the text a tool returns
NoResult ==
    [kind |-> "none", error |-> "none", message |-> None, code |-> None,
     status |-> None, token |-> None, ConversationID |-> None, errorCode |-> None]
Returned(token, body) ==
    [NoResult EXCEPT !.kind = "return", !.token = token,
                     !.ConversationID = body.ConversationID,
                     !.errorCode = body.errorCode]
Raised(error, message, code, status) ==
    [NoResult EXCEPT !.kind = "raise", !.error = error, !.message = Some(message),
                     !.code = code, !.status = status]

\* the text a tool returns: the success text prints fields of the result, the
\* failure text prints str(e), the message alone
ToolOutput(res) ==
    IF res.kind = "return"
    THEN [res EXCEPT !.kind = "text_ok"]
    ELSE [NoResult EXCEPT !.kind = "text_failed", !.message = res.message]

\* _handle_api_error: the exception it ends with
handle_api_error(r) ==
    IF r.body.json = "array"
    THEN \* error_data is a list: error_data.get raises
         Raised("AttributeError", "'list' object has no attribute 'get'", None, None)
    ELSE Raised("DarajaError",
                IF r.body.errorMessage # None THEN r.body.errorMessage[1]
                ELSE IF r.body.text # "" THEN r.body.text
                ELSE "Unknown API error",
                IF r.body.errorCode # None THEN r.body.errorCode
                ELSE Some(HttpCode(r.status)),
                Some(r.status))

\* XResponse(**response.json()) of a method, or response.json() alone for
\* generate_qr: what the method ends with on a 200
DecodeResponse_Lenient(m, body) ==
    Returned(None, body)
DecodeResponse_Leaky(m, body) ==
    Returned(access_token, body)
DecodeResponse(m, body) ==
    IF body.json = "invalid"
    THEN Raised("JSONDecodeError", "Expecting value", None, None)
    ELSE IF m = "generate_qr"
    THEN Returned(None, body)
    ELSE IF body.json = "array"
    THEN Raised("TypeError", "argument after ** must be a mapping", None, None)
    ELSE IF m \in TypedResponseMethods /\ ~body.complete
    THEN Raised("ValidationError", "validation error", None, None)
    ELSE Returned(None, body)

\* the invocation ends: the caller gets res (a tool's caller gets its text),
\* and a tool closes its client on the path that returns; hc is the state
\* of the client's httpx.AsyncClient so far
Finish(entry, res, hc) ==
    /\ step' = "done"
    /\ op_result' = IF entry = "tool" THEN ToolOutput(res) ELSE res
    /\ http_client' = IF entry = "tool" /\ res.kind = "return" THEN "closed" ELSE hc

\* a method from its payload to its POST: the phone number is normalized,
\* the request model built (it may refuse its fields), the request sent
SendOperation(entry, m, a, token, hc) ==
    IF ~RequestValid(m, a)
    THEN /\ Finish(entry, Raised("ValidationError", "validation error", None, None), hc)
         /\ fault' = "validation"
         /\ UNCHANGED << requests, opCalls >>
    ELSE /\ requests' = Append(requests, OperationRequest(m, a, token))
         /\ opCalls' = opCalls + 1
         /\ step' = "await_op"
         /\ http_client' = hc
         /\ UNCHANGED << fault, op_result >>

\* except httpx.RequestError: raise DarajaError(f"Network error: {e}")
RequestError_Retry(entry) ==
    /\ Len(requests) < 3
    /\ requests' = Append(requests, requests[Len(requests)])
    /\ oauthCalls' = oauthCalls + (IF step = "await_token" THEN 1 ELSE 0)
    /\ opCalls' = opCalls + (IF step = "await_op" THEN 1 ELSE 0)
    /\ UNCHANGED << step, op_result, http_client, fault >>
RequestError(entry) ==
    /\ Finish(entry, Raised("DarajaError", "Network error", None, None), http_client)
    /\ fault' = "transport"
    /\ UNCHANGED << requests, oauthCalls, opCalls >>

\* a call of daraja_<m> (entry "tool": the input model, get_daraja_client,
\* then the method) or of DarajaClient.<m> (entry "client"), up to the first
\* suspension of the method or to its end
operation(entry, m, a) ==
    /\ step = "idle"
    /\ a \in ArgsOf(m)
    /\ entry = "tool" => access_token = None /\ token_expiry = None
    /\ call' = [entry |-> entry, method |-> m, args |-> a]
    /\ IF entry = "tool" /\ ~InputValid(m, a)
       THEN \* ValidationError before get_daraja_client()
            /\ Finish(entry, Raised("ValidationError", "validation error", None, None),
                      "none")
            /\ fault' = "validation"
            /\ UNCHANGED << requests, oauthCalls, opCalls >>
       ELSE IF GuardError(m) # None
       THEN /\ Finish(entry, Raised("DarajaError", GuardError(m)[1], None, None), "open")
            /\ fault' = "configuration"
            /\ UNCHANGED << requests, oauthCalls, opCalls >>
       ELSE IF m # "generate_token" /\ TokenIsValid(access_token, token_expiry, now)
       THEN \* _ensure_token returns at once
            /\ SendOperation(entry, m, a, access_token[1], "open")
            /\ UNCHANGED oauthCalls
       ELSE \* generate_token awaits its GET
            /\ requests' = Append(requests, TokenRequest)
            /\ oauthCalls' = oauthCalls + 1
            /\ step' = "await_token"
            /\ http_client' = "open"
            /\ UNCHANGED << fault, op_result, opCalls >>
    /\ UNCHANGED << access_token, token_expiry, now, pc, kind, branch, bearer,
                    outcome, config, exchanged >>
    /\ UNCHANGED << ledgerVars, phoneVars, apiVars, parseVars >>

\* generate_token from the arrival of r, and the method that awaited it up to
\* its POST
operation_token_response(r) ==
    /\ step = "await_token"
    /\ LET entry == call.entry
           m == call.method
       IN  IF r.net
           THEN /\ RequestError(entry)
                /\ UNCHANGED << access_token, token_expiry >>
           ELSE IF r.status # 200
           THEN /\ Finish(entry, handle_api_error(r), http_client)
                /\ fault' = IF r.status \in 200..299 THEN "none" ELSE "exchange"
                /\ UNCHANGED << access_token, token_expiry, requests, oauthCalls,
                                opCalls >>
           ELSE IF r.body.json # "object" \/ r.body.access_token = None
                   \/ r.body.expires_in = None
           THEN \* response.json() or TokenResponse(**...) raises
                /\ Finish(entry,
                          IF r.body.json = "invalid"
                          THEN Raised("JSONDecodeError", "Expecting value", None, None)
                          ELSE IF r.body.json = "array"
                          THEN Raised("TypeError", "argument after ** must be a mapping",
                                      None, None)
                          ELSE Raised("ValidationError", "validation error", None, None),
                          http_client)
                /\ fault' = "exchange"
                /\ UNCHANGED << access_token, token_expiry, requests, oauthCalls,
                                opCalls >>
           ELSE IF ~IsDecimal(r.body.expires_in[1])
           THEN \* access_token is assigned, then int(expires_in) raises
                /\ access_token' = r.body.access_token
                /\ Finish(entry, Raised("ValueError", "invalid literal for int()",
                                        None, None), http_client)
                /\ fault' = "exchange"
                /\ UNCHANGED << token_expiry, requests, oauthCalls, opCalls >>
           ELSE /\ access_token' = r.body.access_token
                /\ token_expiry' = Some(now + PyInt(r.body.expires_in[1]))
                /\ IF m = "generate_token"
                   THEN \* return token_data
                        /\ Finish(entry, Returned(r.body.access_token, r.body),
                                  http_client)
                        /\ UNCHANGED << fault, requests, opCalls >>
                   ELSE SendOperation(entry, m, call.args, r.body.access_token[1],
                                      http_client)
                /\ UNCHANGED oauthCalls
    /\ exchanged' = IF /\ ~r.net /\ r.status = 200 /\ r.body.json = "object"
                       /\ r.body.access_token # None /\ r.body.expires_in # None
                       /\ IsDecimal(r.body.expires_in[1])
                    THEN exchanged \cup {r.body.access_token[1]}
                    ELSE exchanged
    /\ UNCHANGED << now, pc, kind, branch, bearer, outcome, config, call >>
    /\ UNCHANGED << ledgerVars, phoneVars, apiVars, parseVars >>

\* a method from the arrival of the operation's response r to its end
operation_response(r) ==
    /\ step = "await_op"
    /\ LET entry == call.entry
           m == call.method
       IN  IF r.net
           THEN RequestError(entry)
           ELSE IF r.status # 200
           THEN /\ Finish(entry, handle_api_error(r), http_client)
                /\ fault' = IF r.status \in 200..299 THEN "none" ELSE "status"
                /\ UNCHANGED << requests, oauthCalls, opCalls >>
           ELSE /\ Finish(entry, DecodeResponse(m, r.body), http_client)
                /\ fault' = IF \/ r.body.json = "invalid"
                               \/ m # "generate_qr" /\ r.body.json # "object"
                               \/ m \in TypedResponseMethods /\ ~r.body.complete
                            THEN "decoding" ELSE "none"
                /\ UNCHANGED << requests, oauthCalls, opCalls >>
    /\ UNCHANGED << access_token, token_expiry, now, pc, kind, branch, bearer,
                    outcome, config, call, exchanged >>
    /\ UNCHANGED << ledgerVars, phoneVars, apiVars, parseVars >>

OperationNext ==
    \/ \E entry \in Entries, m \in Methods, a \in AllArgs : operation(entry, m, a)
    \/ \E r \in TokenResponses : operation_token_response(r)
    \/ \E r \in OperationResponses : operation_response(r)

(***************************************************************************)
(* Specifications                                                          *)
(***************************************************************************)
\* no operation invoked yet, on a client built from a complete configuration
OpIdle ==
    /\ config = [environment |-> "sandbox",
                 initiator_name |-> Some("apiop"),
                 initiator_password |-> Some("secret"),
                 business_short_code |-> Credentials.sandbox.business_short_code,
                 pass_key |-> Credentials.sandbox.pass_key]
    /\ call = NoCall
    /\ step = "idle"
    /\ requests = << >>
    /\ http_client = "none"
    /\ fault = "none"
    /\ op_result = NoResult
    /\ exchanged = {}

\* no GET request answered yet
ApiIdle == reply = NoReply

\* no list of result parameters at hand
ParseIdle ==
    /\ result_parameters = << >>
    /\ parsed = None

\* no phone number at hand
PhoneIdle ==
    /\ phone_input = ""
    /\ phone_number = ""
    /\ passes = 0

Init == ClientInit /\ LedgerInit /\ OpIdle /\ PhoneIdle /\ ApiIdle /\ ParseIdle

\* callers of one DarajaClient instance, interleaved at their suspensions
ClientSpec == Init /\ [][ClientNext]_vars

\* the example application's request handlers and background tasks
LedgerSpec == Init /\ [][LedgerNext]_vars

\* the same, with the ledger read through its accessors at any moment
LedgerApiSpec == Init /\ [][LedgerApiNext]_vars

\* the normalization applied to each phone number a caller may write
PhoneInit ==
    /\ ClientInit /\ LedgerInit /\ OpIdle /\ ApiIdle /\ ParseIdle
    /\ phone_input \in PhoneInputs
    /\ phone_number = phone_input
    /\ passes = 0
PhoneSpec == PhoneInit /\ [][PhoneNext]_vars

\* parse_result_parameters applied to each list of result parameters
ParseInit ==
    /\ ClientInit /\ LedgerInit /\ OpIdle /\ PhoneIdle /\ ApiIdle
    /\ result_parameters \in ParameterInputs
    /\ parsed = None
ParseSpec == ParseInit /\ [][ParseNext]_vars

\* one invocation of an operation, on a client of any configuration that
\* holds any of the token caches
OperationInit ==
    /\ LedgerInit /\ PhoneIdle /\ ApiIdle /\ ParseIdle
    /\ \E cache \in TokenCaches \cup {FailedRefresh} :
            /\ access_token = cache[1]
            /\ token_expiry = cache[2]
            /\ exchanged = IF cache = FailedRefresh THEN {"tokA"}
                           ELSE IF cache[1] = None THEN {}
                           ELSE {cache[1][1]}
    /\ now = 0
    /\ pc = [c \in Callers |-> "idle"]
    /\ kind = [c \in Callers |-> "none"]
    /\ branch = [c \in Callers |-> "none"]
    /\ bearer = [c \in Callers |-> None]
    /\ outcome = [c \in Callers |-> "none"]
    /\ oauthCalls = 0
    /\ opCalls = 0
    /\ config \in Configs
    /\ call = NoCall
    /\ step = "idle"
    /\ requests = << >>
    /\ http_client = "none"
    /\ fault = "none"
    /\ op_result = NoResult
OperationSpec == OperationInit /\ [][OperationNext]_vars

\* the instants at which a method is called
PasswordInstants == {0, 59, 3661}

\* one invocation of an operation at any of these instants, on a client of
\* either environment's credentials whose cache is empty or holds a token
\* with 120 s left
PasswordInit ==
    /\ LedgerInit /\ PhoneIdle /\ ApiIdle /\ ParseIdle
    /\ now \in PasswordInstants
    /\ \/ access_token = None /\ token_expiry = None /\ exchanged = {}
       \/ /\ access_token = Some("tokA")
          /\ token_expiry = Some(now + 120)
          /\ exchanged = {"tokA"}
    /\ pc = [c \in Callers |-> "idle"]
    /\ kind = [c \in Callers |-> "none"]
    /\ branch = [c \in Callers |-> "none"]
    /\ bearer = [c \in Callers |-> None]
    /\ outcome = [c \in Callers |-> "none"]
    /\ oauthCalls = 0
    /\ opCalls = 0
    /\ config \in {c \in Configs : c.initiator_name = Some("apiop")
                                   /\ c.initiator_password = Some("secret")}
    /\ call = NoCall
    /\ step = "idle"
    /\ requests = << >>
    /\ http_client = "none"
    /\ fault = "none"
    /\ op_result = NoResult
PasswordSpec == PasswordInit /\ [][OperationNext]_vars

(***************************************************************************)
(* Claims about the token cache, stated for ClientSpec                     *)
(***************************************************************************)

\* the step in which caller c invokes an operation method (c leaves "idle"
\* as a stk_push invocation)
Invokes(c) == pc[c] = "idle" /\ kind'[c] = "stk_push"

\* the cached token is inside its expiry-minus-skew window at the current time
InsideWindow ==
    /\ access_token # None
    /\ access_token[1] # ""
    /\ token_expiry # None
    /\ now < token_expiry[1] - 60

\* C1: when several _ensure_token calls run concurrently while no valid token
\* is cached, exactly one credential exchange is issued: no two callers that
\* went through _ensure_token ever have a GET to the oauth endpoint in flight
\* at the same time.
C1_SingleFlight ==
    \A c1, c2 \in Callers :
        (c1 # c2 /\ kind[c1] = "stk_push" /\ kind[c2] = "stk_push"
            /\ pc[c1] = "await_token")
        => pc[c2] # "await_token"

\* C2: an _ensure_token call made while the cached (non-empty) token is inside
\* its expiry-minus-skew window issues no credential exchange and leaves the
\* cached token and expiry unchanged, so that call and the one that cached
\* the token issue one exchange in total; a cached expiry always stems from
\* an exchange that was issued.
C2_TokenReuse ==
    /\ [](token_expiry # None => oauthCalls >= 1)
    /\ [][\A c \in Callers :
            (Invokes(c) /\ InsideWindow)
            => /\ oauthCalls' = oauthCalls
               /\ access_token' = access_token
               /\ token_expiry' = token_expiry
               /\ pc'[c] = "await_op"
               /\ bearer'[c] = access_token]_clientVars

\* C2's case: the second of two calls reused the token the first one cached:
\* one exchange, two operation requests.
C2_Witness ==
    \E c \in Callers :
        /\ branch[c] = "cached"
        /\ bearer[c] = access_token
        /\ oauthCalls = 1
        /\ opCalls = 2

\* C3: the cached token counts as valid only while now < expiresAt - 60s.
\* Every call made with no cached token or at a time >= expiresAt - 60s
\* issues a credential exchange and no operation request before that exchange
\* has returned; and an operation request is only ever sent either right
\* after the caller's own exchange succeeded or with a cached token that has
\* more than 60 seconds left.
C3_RefreshSkew ==
    /\ [][\A c \in Callers :
            (Invokes(c) /\ ~InsideWindow)
            => /\ pc'[c] = "await_token"
               /\ oauthCalls' = oauthCalls + 1
               /\ opCalls' = opCalls
               /\ bearer'[c] = None]_clientVars
    /\ [][\A c \in Callers :
            (bearer[c] = None /\ bearer'[c] # None)
            => \/ pc[c] = "await_token" /\ bearer'[c] = access_token'
               \/ InsideWindow /\ token_expiry[1] - now > 60]_clientVars

\* C3's case: a call found a token cached but past expiresAt - 60s, refreshed
\* it and then sent its operation request.
C3_Witness ==
    \E c \in Callers :
        /\ branch[c] = "stale"
        /\ bearer[c] # None
        /\ oauthCalls = 2


(***************************************************************************)
(* Claims about the ledger and the correlation of callbacks, stated for    *)
(* LedgerSpec                                                              *)
(***************************************************************************)

TerminalStatuses == {"completed", "failed", "timeout"}

\* the text of a payload's ResultCode is "0"
IsSuccess(result) ==
    result.ResultCode # None /\ result.ResultCode[1].text = "0"

\* payment p is the record a callback carrying conversation_id is matched
\* to: the first record, in insertion order, that holds that id
Matches(p, conversation_id) ==
    /\ p \in PaymentIds
    /\ payments[p].conversation_id = conversation_id
    /\ \A q \in PaymentIds : q < p => payments[q].conversation_id # conversation_id

\* the conversation ids the ledger was told about
KnownConversationIds ==
    {payments[p].conversation_id[1] :
        p \in {q \in PaymentIds : payments[q].conversation_id # None}}

\* C4: a success result callback delivered for a conversation id whose record
\* is already completed is a no-op: it changes no field of that record and
\* triggers the success actions no second time.
C4_SingleDelivery ==
    [][\A r \in ResultPayloads, p \in 1..MaxPayments :
          (/\ IsSuccess(r)
           /\ r.ConversationID # None
           /\ Matches(p, r.ConversationID)
           /\ payments[p].status = "completed"
           /\ handle_result(r))
          => /\ payments'[p] = payments[p]
             /\ success_notifications'[p] = success_notifications[p]]_vars

\* C5: terminal statuses are absorbing: no result or timeout callback changes
\* the status of a record that is completed, failed or timed out.
C5_TerminalAbsorbing ==
    [][\A p \in 1..MaxPayments :
          (/\ p \in PaymentIds
           /\ payments[p].status \in TerminalStatuses
           /\ \/ \E r \in ResultPayloads : handle_result(r)
              \/ \E t \in TimeoutPayloads : handle_timeout(t))
          => payments'[p].status = payments[p].status]_vars

\* C6: a result or timeout callback whose conversation id is not the
\* conversation id of any record the ledger was told about, the payload
\* without a ConversationID included, leaves every record unchanged and
\* triggers no action.
C6_UnknownIdNoMutation ==
    [][\A c \in CallbackIds :
          (/\ c = None \/ c[1] \notin KnownConversationIds
           /\ \/ \E r \in ResultPayloads : r.ConversationID = c /\ handle_result(r)
              \/ \E t \in TimeoutPayloads : t.ConversationID = c /\ handle_timeout(t))
          => /\ payments' = payments
             /\ success_notifications' = success_notifications
             /\ failure_notifications' = failure_notifications]_vars

\* C7: no two records of the ledger share a conversation identifier.
C7_UniqueConversationIds ==
    \A p, q \in PaymentIds :
        (p # q /\ payments[p].conversation_id # None)
        => payments[p].conversation_id # payments[q].conversation_id

\* C8: for a pending record, the result callback matched to it sets its
\* status to completed when the ResultCode reads "0" and to failed for any
\* other ResultCode, and the timeout callback matched to it sets it to timed
\* out; each stamps the completion time with the current time.
C8_Transitions ==
    [][\A p \in 1..MaxPayments :
          /\ \A r \in ResultPayloads :
                (/\ Matches(p, r.ConversationID)
                 /\ payments[p].status = "pending"
                 /\ handle_result(r))
                => /\ payments'[p].status =
                        (IF IsSuccess(r) THEN "completed" ELSE "failed")
                   /\ payments'[p].completed_at = Some(clock)
          /\ \A t \in TimeoutPayloads :
                (/\ Matches(p, t.ConversationID)
                 /\ payments[p].status = "pending"
                 /\ handle_timeout(t))
                => /\ payments'[p].status = "timeout"
                   /\ payments'[p].completed_at = Some(clock)]_vars

\* C8's case: an acknowledged payment was completed by a result callback
\* with ResultCode "0", and another record was timed out by a timeout
\* callback; both carry a completion time.
C8_Witness ==
    \E p, q \in PaymentIds :
        /\ payments[p].status = "completed"
        /\ payments[p].conversation_id = Some(MockConversationId)
        /\ payments[p].result_code = Some("0")
        /\ payments[p].completed_at # None
        /\ payments[q].status = "timeout"
        /\ payments[q].completed_at # None

\* C9: no operation is lost: a recorded payment whose result or timeout
\* callback the gateway has delivered has left pending.
C9_NoOperationLost ==
    \A p \in PaymentIds : answered[p] # None => payments[p].status # "pending"

HasReceipt(result) ==
    /\ result.ResultParameter # None
    /\ \E i \in 1..Len(result.ResultParameter[1]) :
            result.ResultParameter[1][i].Key = Some("TransactionReceipt")

\* the Value of the payload's last TransactionReceipt parameter
ReceiptOf(result) ==
    LET ps == result.ResultParameter[1]
        last == CHOOSE i \in 1..Len(ps) :
                    /\ ps[i].Key = Some("TransactionReceipt")
                    /\ \A j \in 1..Len(ps) :
                            ps[j].Key = Some("TransactionReceipt") => j <= i
    IN  ps[last].Value[1]

\* some text field of the record holds the value v
HeldByRecord(payment, v) ==
    \/ \E f \in {"recipient_phone", "command_id", "remarks", "status"} :
            payment[f] = v
    \/ \E f \in {"occasion", "conversation_id", "originator_conversation_id",
                  "result_code", "result_description"} :
            payment[f] = Some(v)

\* the ledger's only record belongs to the acknowledged disbursement of
\* amount 1000 to "0708374149" with remarks "Salary", and no callback has
\* been delivered yet
AcknowledgedScenario ==
    /\ Len(payments) = 1
    /\ tasks[1] = "acked"
    /\ deliveries = 0

\* C11 as stated: after the disbursement (amount 1000, recipient
\* "0708374149", remarks "Salary") is submitted and acknowledged the ledger
\* holds one pending record with the returned conversation id; the result
\* callback for that id with ResultCode "0" and a TransactionReceipt
\* parameter completes that record, and the TransactionReceipt value is then
\* held by the record.
C11_ReceiptOnRecord ==
    [][\A r \in ResultPayloads :
          (/\ AcknowledgedScenario
           /\ IsSuccess(r)
           /\ HasReceipt(r)
           /\ r.ConversationID = payments[1].conversation_id
           /\ handle_result(r))
          => /\ payments'[1].status = "completed"
             /\ HeldByRecord(payments'[1], ReceiptOf(r))]_vars

\* C11 as amended: after the disbursement is submitted and acknowledged the
\* ledger holds one pending record with the submitted fields and the
\* returned conversation id; the result callback for that id with ResultCode
\* "0" and a TransactionReceipt parameter completes that record, and the
\* TransactionReceipt value is in the flattened mapping handed to
\* send_success_notification, while no field of the record holds it.
C11_EndToEnd ==
    /\ [](AcknowledgedScenario
            => /\ payments[1].status = "pending"
               /\ payments[1].conversation_id = Some(MockConversationId)
               /\ payments[1].amount = 1000
               /\ payments[1].recipient_phone = "0708374149"
               /\ payments[1].remarks = "Salary")
    /\ [][\A r \in ResultPayloads :
            (/\ AcknowledgedScenario
             /\ IsSuccess(r)
             /\ HasReceipt(r)
             /\ r.ConversationID = payments[1].conversation_id
             /\ handle_result(r))
            => /\ payments'[1].status = "completed"
               /\ success_details' # None
               /\ "TransactionReceipt" \in DOMAIN success_details'[1]
               /\ success_details'[1]["TransactionReceipt"] = ReceiptOf(r)
               /\ ~HeldByRecord(payments'[1], ReceiptOf(r))]_vars

\* C11's case: the only record of the ledger was completed by a result
\* callback whose TransactionReceipt parameter reached
\* send_success_notification.
C11_Witness ==
    /\ Len(payments) = 1
    /\ payments[1].status = "completed"
    /\ payments[1].conversation_id = Some(MockConversationId)
    /\ success_notifications[1] = 1
    /\ success_details # None
    /\ "TransactionReceipt" \in DOMAIN success_details[1]
    /\ success_details[1]["TransactionReceipt"] = "R2"

(***************************************************************************)
(* Claims about phone numbers, stated for PhoneSpec                        *)
(***************************************************************************)

\* C18: phone normalization (leading "0" replaced by "254", leading "+"
\* stripped, anything else unchanged) is defined on every input, and on every
\* input PhoneNumber.validate accepts a second pass changes nothing:
\* normalize(normalize(x)) = normalize(x); "0712345678" and "+254712345678"
\* both normalize to "254712345678".
C18_NormalizeIdempotent ==
    /\ passes < MaxPasses => ENABLED normalize_phone
    /\ (passes >= 1 /\ PhoneNumber_validate(phone_input))
        => /\ NormalizePhone(phone_number) = phone_number
           /\ phone_number = NormalizePhone(phone_input)
    /\ (passes >= 1 /\ phone_input = "0712345678")
        => phone_number = "254712345678"
    /\ (passes >= 1 /\ phone_input = "+254712345678")
        => phone_number = "254712345678"

\* C18's case: "0712345678" went through two passes and reads
\* "254712345678".
C18_Witness ==
    /\ phone_input = "0712345678"
    /\ PhoneNumber_validate(phone_input)
    /\ passes = 2
    /\ phone_number = "254712345678"

(***************************************************************************)
(* Claims about operations, stated for OperationSpec                       *)
(***************************************************************************)

\* the invocation has ended in a failure: an exception for the caller of a
\* client method, the failure text for the caller of a tool
Failed(res) == res.kind \in {"raise", "text_failed"}

\* no HTTP request has been sent
NoHttpCall == requests = << >> /\ oauthCalls = 0 /\ opCalls = 0

\* the arguments break a constraint of the operation: a push-payment amount
\* of 0 or above 70000, a non-positive amount elsewhere, an account
\* reference longer than 12 characters, a transaction description longer
\* than 13, remarks longer than 100
ViolatesConstraint(m, a) ==
    \/ m = "stk_push" /\ (a.amount < 1 \/ a.amount > 70000)
    \/ m = "stk_push" /\ Len(a.transaction_desc) > 13
    \/ m \in {"stk_push", "b2b_payment"} /\ Len(a.account_reference) > 12
    \/ /\ m \in {"c2b_simulate", "b2c_payment", "b2b_payment", "reverse_transaction",
                  "generate_qr"}
       /\ a.amount < 1
    \/ /\ m \in {"b2c_payment", "b2b_payment", "account_balance",
                  "transaction_status", "reverse_transaction"}
       /\ Len(a.remarks) > 100

\* the arguments break a length limit
ViolatesLength(m, a) ==
    \/ m = "stk_push" /\ Len(a.transaction_desc) > 13
    \/ m \in {"stk_push", "b2b_payment"} /\ Len(a.account_reference) > 12
    \/ /\ m \in {"b2c_payment", "b2b_payment", "account_balance",
                  "transaction_status", "reverse_transaction"}
       /\ Len(a.remarks) > 100

C13_SimulateGuard ==
    [][(step = "idle" /\ config.environment = "production")
        => \A entry \in Entries, a \in AllArgs :
              operation(entry, "c2b_simulate", a)
              => /\ step' = "done"
                 /\ requests' = << >> /\ oauthCalls' = 0 /\ opCalls' = 0
                 /\ access_token' = access_token
                 /\ token_expiry' = token_expiry
                 /\ Failed(op_result')
                 /\ op_result'.message \in
                        {Some("C2B simulation is only available in sandbox environment"),
                         Some("validation error")}
                 /\ entry = "client"
                    => /\ op_result'.error = "DarajaError"
                       /\ op_result'.message =
                            Some("C2B simulation is only available in sandbox environment")]_vars

\* C13's case: c2b_simulate was called on a production client that holds a
\* valid token; it raised the configuration error and sent nothing.
C13_Witness ==
    /\ call.method = "c2b_simulate"
    /\ config.environment = "production"
    /\ access_token = Some("tokA")
    /\ token_expiry = Some(120)
    /\ step = "done"
    /\ op_result.kind = "raise"
    /\ op_result.message = Some("C2B simulation is only available in sandbox environment")
    /\ requests = << >>

\* the configured value is absent: unset or empty
Absent(value) == value = None \/ value = Some("")

\* C14: b2c_payment, b2b_payment, account_balance, transaction_status and
\* reverse_transaction, invoked while the initiator name or the initiator
\* password is absent (unset or empty), fail with the configuration error
\* (behind the tool, with the validation error when the arguments are
\* refused first) before any HTTP request is sent and without changing the
\* token cache; every request these methods do send carries the configured
\* initiator name and password, verbatim, as InitiatorName and
\* SecurityCredential.
C14_InitiatorGuard ==
    /\ [][(/\ step = "idle"
            /\ (Absent(config.initiator_name) \/ Absent(config.initiator_password)))
           => \A entry \in Entries, m \in InitiatorMethods, a \in AllArgs :
                 operation(entry, m, a)
                 => /\ step' = "done"
                    /\ requests' = << >> /\ oauthCalls' = 0 /\ opCalls' = 0
                    /\ access_token' = access_token
                    /\ token_expiry' = token_expiry
                    /\ Failed(op_result')
                    /\ op_result'.message \in
                            {Some("Initiator credentials are required"),
                             Some("validation error")}
                    /\ entry = "client"
                       => /\ op_result'.error = "DarajaError"
                          /\ op_result'.message =
                                Some("Initiator credentials are required")]_vars
    /\ [](\A i \in 1..Len(requests) :
            requests[i].url \in InitiatorMethods
            => /\ ~Absent(config.initiator_name)
               /\ ~Absent(config.initiator_password)
               /\ requests[i].payload[1].InitiatorName = config.initiator_name
               /\ requests[i].payload[1].SecurityCredential = config.initiator_password)

\* C14's case: reverse_transaction was called on a client that holds a
\* valid token and whose initiator password is empty; it raised the
\* configuration error and sent nothing.
C14_Witness ==
    /\ call.method = "reverse_transaction"
    /\ config.initiator_name = Some("apiop")
    /\ config.initiator_password = Some("")
    /\ access_token = Some("tokA")
    /\ step = "done"
    /\ op_result.kind = "raise"
    /\ op_result.message = Some("Initiator credentials are required")
    /\ requests = << >>

\* the number of requests sent with the verb
Sent(verb) == Cardinality({i \in 1..Len(requests) : requests[i].verb = verb})

\* C15: no retries: one invocation of an operation sends at most one
\* credential exchange and at most one request to the operation's endpoint,
\* and a transport failure of either request ends the invocation at once
\* with the network error, no further request being sent.
C15_NoRetry ==
    /\ [](/\ Sent("GET") <= 1 /\ Sent("POST") <= 1
          /\ oauthCalls = Sent("GET") /\ opCalls = Sent("POST"))
    /\ [][\A r \in {NetworkFailure} :
            (step # "done" /\ (operation_token_response(r) \/ operation_response(r)))
            => /\ step' = "done"
               /\ requests' = requests
               /\ Failed(op_result')
               /\ op_result'.message = Some("Network error")
               /\ call.entry = "client" => op_result'.error = "DarajaError"]_vars
    /\ [][step = "done" => requests' = requests]_vars

\* C15's case: the credential exchange succeeded, the operation request
\* met a transport failure, and the invocation ended with the network error
\* after those two requests.
C15_Witness ==
    /\ step = "done"
    /\ fault = "transport"
    /\ op_result.message = Some("Network error")
    /\ Len(requests) = 2
    /\ requests[1].verb = "GET"
    /\ requests[2].verb = "POST"

\* C16: every gateway response with a non-2xx status makes the client
\* method fail with a gateway error (DarajaError) whose status is the
\* response status, whose code is the body's errorCode when the body is JSON
\* holding one and HTTP_<status> otherwise, and whose message is the body's
\* errorMessage when present and the raw response text otherwise.
C16_GatewayError ==
    [][\A r \in TokenResponses \cup OperationResponses :
          (/\ call.entry = "client"
           /\ step # "done"
           /\ ~r.net
           /\ r.status \notin 200..299
           /\ (operation_token_response(r) \/ operation_response(r)))
          => /\ step' = "done"
             /\ op_result'.kind = "raise"
             /\ op_result'.error = "DarajaError"
             /\ op_result'.status = Some(r.status)
             /\ op_result'.code =
                    (IF r.body.json = "object" /\ r.body.errorCode # None
                     THEN r.body.errorCode ELSE Some("HTTP_500"))
             /\ op_result'.message =
                    (IF r.body.json = "object" /\ r.body.errorMessage # None
                     THEN r.body.errorMessage ELSE Some(r.body.text))]_vars

\* C17: every error that occurs during an operation (validation,
\* configuration, credential exchange, transport, gateway status, response
\* decoding) ends the invocation and reaches its caller as an error outcome
\* that carries the error's message: an exception out of a client method,
\* the failure text out of a tool; no invocation during which an error
\* occurred gives a normal result.
C17_ErrorsPropagate ==
    /\ fault # "none"
       => /\ step = "done"
          /\ Failed(op_result)
          /\ op_result.message # None
          /\ call.entry = "client" => op_result.error # "none"
    /\ op_result.kind \in {"return", "text_ok"} => fault = "none"

\* C17's case: the b2c_payment tool got a 500 from the gateway and returned
\* the failure text with the gateway's message.
C17_Witness ==
    /\ call.entry = "tool"
    /\ call.method = "b2c_payment"
    /\ fault = "status"
    /\ step = "done"
    /\ op_result.kind = "text_failed"
    /\ op_result.message = Some("Invalid Access Token")

\* 254[17]\d{8}
MatchesMsisdn(phone) ==
    /\ Len(phone) = 12
    /\ SubSeq(phone, 1, 3) = "254"
    /\ SubSeq(phone, 4, 4) \in {"1", "7"}
    /\ \A i \in 5..12 : SubSeq(phone, i, i) \in Digits

\* C19: every phone number that reaches the gateway in a stk_push,
\* c2b_simulate or b2c_payment payload matches 254[17]\d{8}; stated for the
\* calls that come through the tools, whose input models validate the
\* phone number before the client normalizes it.
C19_GatewayPhoneFormat ==
    \A i \in 1..Len(requests) :
        (/\ call.entry = "tool"
         /\ requests[i].url \in PhoneMethods)
        => MatchesMsisdn(requests[i].payload[1].phone[1])

\* C20 as stated: no result a client method returns and no text a tool
\* returns holds the access token.
C20_TokenNeverReturned ==
    op_result.token = None

\* C20 as amended: the access token is in what generate_token returns and
\* in the text daraja_generate_token returns, and in the result of no other
\* operation, failures included; in outbound requests it appears as the
\* Bearer credential of the operation request only, the exchange itself
\* carrying the Basic credential.
C20_TokenOnlyFromGenerateToken ==
    /\ op_result.token # None
       => /\ call.method = "generate_token"
          /\ op_result.kind \in {"return", "text_ok"}
          /\ op_result.token = access_token
    /\ (call.method = "generate_token" /\ op_result.kind \in {"return", "text_ok"})
       => op_result.token = access_token /\ access_token # None
    /\ \A i \in 1..Len(requests) :
          /\ requests[i].verb = "GET"
             => /\ requests[i].authorization.scheme = "Basic"
                /\ requests[i].payload = None
          /\ requests[i].verb = "POST"
             => requests[i].authorization =
                    [scheme |-> "Bearer", credential |-> access_token[1]]

\* C20's case: the daraja_generate_token tool returned its success text,
\* which holds the token just cached.
C20_Witness ==
    /\ call.entry = "tool"
    /\ call.method = "generate_token"
    /\ step = "done"
    /\ op_result.kind = "text_ok"
    /\ op_result.token = Some("tokB")
    /\ access_token = Some("tokB")

(***************************************************************************)
(* Claims about the interleaving of the ledger's handlers, stated for      *)
(* LedgerSpec                                                              *)
(***************************************************************************)

\* the record the background task of a payment leaves behind, for each
\* outcome of its submission
Submitted(payment) ==
    {[payment EXCEPT !.conversation_id = Some(MockConversationId),
                     !.originator_conversation_id =
                         Some(MockOriginatorConversationId)],
     [payment EXCEPT !.status = "failed"]}

\* the record a callback handler leaves behind when its lookup returns
\* payment: what a result callback makes of it, or a timeout callback
Delivered(payment, conversation_id) ==
    {handle_payment_result(payment, r, clock) :
        r \in {x \in ResultPayloads : x.ConversationID = conversation_id}}
    \cup {[payment EXCEPT !.status = "timeout", !.completed_at = Some(clock)]}

\* C21: registration, lookup and status transition are atomic with respect
\* to each other. A step of the application that changes a record changes
\* that record only, and it is one handler's lookup of the record and its
\* transition together, applied to the record as the lookup found it: either
\* the record's background task, which had not looked the record up before
\* the step and has made its transition after it, or a callback handler
\* whose lookup returns the record, at a moment when the record's task is
\* not between its own lookup and its transition. Registration appends a
\* record and changes none.
C21_HandlersAtomic ==
    [][/\ Len(payments') >= Len(payments)
       /\ \A p \in 1..MaxPayments :
            (p \in PaymentIds /\ payments'[p] # payments[p])
            => /\ Len(payments') = Len(payments)
               /\ \A q \in PaymentIds : q # p => payments'[q] = payments[q]
               /\ \/ /\ tasks[p] = "queued"
                     /\ tasks'[p] \in {"acked", "failed"}
                     /\ payments'[p] \in Submitted(payments[p])
                  \/ /\ tasks'[p] = tasks[p]
                     /\ tasks[p] \in {"queued", "acked", "failed"}
                     /\ \E c \in CallbackIds :
                            /\ Matches(p, c)
                            /\ payments'[p] \in Delivered(payments[p], c)]_vars

\* C21's case: handlers for the same and for different conversation ids
\* have interleaved. A timeout callback was handled between the
\* registration of one payment and the run of its background task, which
\* is still queued, while another payment was submitted, acknowledged and
\* completed by its result callback.
C21_Witness ==
    \E p, q \in PaymentIds :
        /\ tasks[p] = "queued"
        /\ payments[p].status = "timeout"
        /\ tasks[q] = "acked"
        /\ payments[q].status = "completed"
        /\ payments[q].conversation_id = Some(MockConversationId)

\* a status other than pending was given to record p in this step
LeavesPending(p) ==
    /\ p \in PaymentIds
    /\ payments[p].status = "pending"
    /\ payments'[p].status # "pending"

\* the step is a result or timeout callback whose lookup returns record p
CallbackFor(p) ==
    \/ \E r \in ResultPayloads : Matches(p, r.ConversationID) /\ handle_result(r)
    \/ \E t \in TimeoutPayloads : Matches(p, t.ConversationID) /\ handle_timeout(t)

C23_RecordsRetained ==
    [][/\ Len(payments') >= Len(payments)
       /\ \A p \in 1..MaxPayments :
            (p \in PaymentIds /\ get_payment(p))
            => /\ reply'.status_code = 200
               /\ reply'.body = << payments'[p] >>
       /\ list_payments
            => /\ reply'.status_code = 200
               /\ Len(reply'.body) = Len(payments')
               /\ \A p \in PaymentIds : reply'.body[p] = payments'[p]
       /\ reply' # reply => UNCHANGED ledgerVars]_vars

\* C23's case: two payments were submitted and both have reached a terminal
\* status, one by a callback and one by its failed submission; after that
\* GET /payments/{payment_id} returned the record completed by the callback.
C23_Witness ==
    /\ Len(payments) = MaxPayments
    /\ \A p \in PaymentIds : payments[p].status \in TerminalStatuses
    /\ \E p \in PaymentIds : tasks[p] = "failed"
    /\ reply.handler = "get_payment"
    /\ reply.status_code = 200
    /\ \E p \in PaymentIds :
            /\ payments[p].status = "completed"
            /\ reply.body = << payments[p] >>

(***************************************************************************)
(* Claims about parse_result_parameters, stated for ParseSpec              *)
(***************************************************************************)

\* the Key and the Value of the item at position i of the list
KeyAt(i) == result_parameters[i].Key[1]
ValueAt(i) == result_parameters[i].Value[1]

\* the last position of the list that holds key
LastOccurrence(key) ==
    CHOOSE i \in 1..Len(result_parameters) :
        /\ KeyAt(i) = key
        /\ \A j \in 1..Len(result_parameters) : KeyAt(j) = key => j <= i

\* C24: the mapping parse_result_parameters returns for an ordered list of
\* {Key, Value} items contains exactly the keys that occur in the list, each
\* bound to the Value of its last occurrence; for the empty list it is the
\* empty mapping.
C24_LastValueWins ==
    parsed # None
    => /\ DOMAIN parsed[1] = {KeyAt(i) : i \in 1..Len(result_parameters)}
       /\ \A key \in DOMAIN parsed[1] :
            parsed[1][key] = ValueAt(LastOccurrence(key))
       /\ result_parameters = << >> => parsed[1] = EmptyDict

\* C24's case: a list of three items was parsed in which one key occurs
\* twice with different values, around an item of another key.
C24_Witness ==
    /\ parsed # None
    /\ Len(result_parameters) = 3
    /\ KeyAt(1) = KeyAt(3)
    /\ ValueAt(1) # ValueAt(3)
    /\ KeyAt(2) # KeyAt(1)
    /\ parsed[1][KeyAt(1)] = ValueAt(3)

(***************************************************************************)
(* Claims about credentials, passwords and results of an invocation,       *)
(* stated for OperationSpec                                                *)
(***************************************************************************)

\* C25: every request to an endpoint other than oauth is issued only after
\* _ensure_token has returned in the same invocation (at once, or after the
\* invocation's own exchange, which has not failed) and carries as Bearer
\* credential a token value that generate_token obtained from an exchange it
\* completed; the oauth request, and no other, carries the Basic credential.
C25_BearerAfterEnsureToken ==
    \A i \in 1..Len(requests) :
        /\ requests[i].url = "oauth" <=> requests[i].authorization.scheme = "Basic"
        /\ requests[i].url # "oauth"
            => /\ requests[i].authorization.scheme = "Bearer"
               /\ requests[i].authorization.credential \in exchanged
               /\ fault # "exchange"
               /\ \/ i = 1
                  \/ i = 2 /\ requests[1].url = "oauth"

\* C26: the Password of every push-payment and push-query request is the
\* base64 encoding of the client's business short code, its pass key and the
\* Timestamp of the same payload, concatenated in this order: a function
\* of the three values, so equal values give an equal password.
C26_PasswordOfTimestamp ==
    \A i \in 1..Len(requests) :
        requests[i].url \in {"stk_push", "stk_query"}
        => /\ requests[i].payload[1].Timestamp # None
           /\ requests[i].payload[1].Password =
                Some(b64encode(config.business_short_code \o config.pass_key
                               \o requests[i].payload[1].Timestamp[1]))

\* C26's case: a push-payment request was sent at 01:01:01 with the sandbox
\* credentials; its Timestamp and its Password are the strings strftime and
\* base64.b64encode give for them.
C26_Witness ==
    \E i \in 1..Len(requests) :
        /\ requests[i].url = "stk_push"
        /\ config.business_short_code = "174379"
        /\ config.pass_key = "bfb279f9"
        /\ requests[i].payload[1].Timestamp = Some("20240101010101")
        /\ requests[i].payload[1].Password =
                Some("MTc0Mzc5YmZiMjc5ZjkyMDI0MDEwMTAxMDEwMQ==")

\* C27: a token exchange that fails, whatever the reason (transport error,
\* status other than 200, body without the fields, expires_in not a number),
\* leaves the cached pair (access_token, token_expiry) exactly as it was
\* before the call.  (A method that fails after its exchange succeeded, on
\* its request model, is not such a failure.)
C27_CacheAtomic ==
    [][(/\ step = "await_token"
        /\ op_result'.kind \in {"raise", "text_failed"}
        /\ fault' # "validation")
       => UNCHANGED << access_token, token_expiry >>]_vars

\* C28: a client method returns a decoded result only on a response whose
\* status is exactly 200; on every other status, 201 included, it raises
\* DarajaError with that status in its status field and returns nothing.
C28_Only200Returns ==
    [][\A r \in TokenResponses \cup OperationResponses :
          (/\ call.entry = "client"
           /\ step # "done"
           /\ ~r.net
           /\ (operation_token_response(r) \/ operation_response(r)))
          => /\ op_result'.kind = "return" => r.status = 200
             /\ r.status # 200
                => /\ step' = "done"
                   /\ op_result'.kind = "raise"
                   /\ op_result'.error = "DarajaError"
                   /\ op_result'.status = Some(r.status)]_vars

\* C29: when a tool handler has returned, on its success path or on a
\* failure path, the client it created, if it created one, is closed.
C29_ClientClosed ==
    (call.entry = "tool" /\ step = "done") => http_client \in {"none", "closed"}

\* C30: a normal return of b2c_payment, b2b_payment,
\* account_balance, transaction_status or reverse_transaction carries a
\* ConversationID and no errorCode.
C30_ReturnCarriesConversationId ==
    (/\ call.entry = "client"
     /\ call.method \in InitiatorMethods
     /\ op_result.kind = "return")
    => /\ op_result.ConversationID # None
       /\ op_result.errorCode = None

=============================================================================
